---------------------------- MODULE Spec2Model ----------------------------
(***************************************************************************)
(* A model of morroisback/proxy_tunnel: a TCP relay that injects the       *)
(* Proxy-Authorization header into requests forwarded to an upstream proxy.*)
(*                                                                         *)
(*   src/proxy_tunnel/proxy_tunnel.py   Proxy, Connection, ProxyTunnel     *)
(*                                                                         *)
(* Bytes are modelled as sequences of one-character strings, so that       *)
(* startswith, split and join are computed as Python computes them.        *)
(***************************************************************************)
EXTENDS Integers, Sequences, FiniteSets, TLC

(***************************************************************************)
(* Bounds of the model.                                                    *)
(***************************************************************************)
\* max_connections handed to start(): the capacity of the session table.
MaxSessions == 2
\* Clients that connect to the listening socket during one run.
MaxClients == 3
\* Header lines of the requests add_auth_header is applied to.
MaxHeaders == 2

(***************************************************************************)
(* Byte strings.                                                           *)
(***************************************************************************)
CR == "\r"
LF == "\n"
CRLF == <<CR, LF>>
CRLFCRLF == <<CR, LF, CR, LF>>

\* Python's None (Proxy credentials absent, ProxyTunnel.proxy_authorization).
None == <<"<None>">>

\* bytes.startswith
StartsWith(s, p) ==
    /\ Len(p) <= Len(s)
    /\ \A k \in 1..Len(p) : s[k] = p[k]

\* bytes.find, 1-based; 0 when p does not occur in s.
RECURSIVE FindFrom(_, _, _)
FindFrom(s, p, i) ==
    IF i + Len(p) - 1 > Len(s) THEN 0
    ELSE IF \A k \in 1..Len(p) : s[i + k - 1] = p[k] THEN i
    ELSE FindFrom(s, p, i + 1)

Find(s, p) == FindFrom(s, p, 1)

\* bytes.split(sep, 1): one piece when sep does not occur, else two.
SplitOnce(s, sep) ==
    LET i == Find(s, sep)
    IN  IF i = 0 THEN <<s>>
        ELSE <<SubSeq(s, 1, i - 1), SubSeq(s, i + Len(sep), Len(s))>>

\* bytes.split(sep): the pieces between the occurrences of sep, left to right.
RECURSIVE Split(_, _)
Split(s, sep) ==
    LET i == Find(s, sep)
    IN  IF i = 0 THEN <<s>>
        ELSE <<SubSeq(s, 1, i - 1)>> \o Split(SubSeq(s, i + Len(sep), Len(s)), sep)

\* sep.join(pieces)
RECURSIVE Join(_, _)
Join(pieces, sep) ==
    IF pieces = <<>> THEN <<>>
    ELSE IF Len(pieces) = 1 THEN pieces[1]
    ELSE pieces[1] \o sep \o Join(Tail(pieces), sep)

(***************************************************************************)
(* base64.b64encode, for the characters the modelled credentials use.     *)
(***************************************************************************)
B64Alphabet ==
    << "A","B","C","D","E","F","G","H","I","J","K","L","M","N","O","P",
       "Q","R","S","T","U","V","W","X","Y","Z","a","b","c","d","e","f",
       "g","h","i","j","k","l","m","n","o","p","q","r","s","t","u","v",
       "w","x","y","z","0","1","2","3","4","5","6","7","8","9","+","/" >>

\* str.encode(): the byte value of a character.
Ord(c) ==
    CASE c = ":" -> 58
      [] c = "a" -> 97
      [] c = "p" -> 112
      [] c = "u" -> 117

RECURSIVE b64encode(_)
b64encode(s) ==
    IF s = <<>> THEN <<>>
    ELSE
        LET n  == Len(s)
            b1 == Ord(s[1])
            b2 == IF n >= 2 THEN Ord(s[2]) ELSE 0
            b3 == IF n >= 3 THEN Ord(s[3]) ELSE 0
            v  == b1 * 65536 + b2 * 256 + b3
            c1 == B64Alphabet[(v \div 262144) + 1]
            c2 == B64Alphabet[((v \div 4096) % 64) + 1]
            c3 == IF n >= 2 THEN B64Alphabet[((v \div 64) % 64) + 1] ELSE "="
            c4 == IF n >= 3 THEN B64Alphabet[(v % 64) + 1] ELSE "="
        IN  <<c1, c2, c3, c4>> \o (IF n > 3 THEN b64encode(SubSeq(s, 4, n)) ELSE <<>>)

\* ProxyTunnel.__init__: the cached credential header value, or None.
ProxyAuthorization(remote_proxy) ==
    IF remote_proxy.username # <<>> /\ remote_proxy.password # <<>>
    THEN <<"B", "a", "s", "i", "c", " ">>
            \o b64encode(remote_proxy.username \o <<":">> \o remote_proxy.password)
    ELSE None

(***************************************************************************)
(* Connection.add_auth_header                                              *)
(***************************************************************************)
ProxyAuthorizationPrefix ==
    <<"P", "r", "o", "x", "y", "-", "A", "u", "t", "h", "o", "r", "i", "z",
      "a", "t", "i", "o", "n", ":">>

\* add_auth_header with a slip at line 94: on a Proxy-Authorization line the old
\* header is kept instead of the new one.
AddAuthHeaderKeepsOld(request, proxy_authorization) ==
    LET parts == SplitOnce(request, CRLFCRLF)
    IN  IF Len(parts) # 2
        THEN [exc |-> "ValueError", request |-> <<>>]
        ELSE
            LET headers_list == Split(parts[1], CRLF)
                auth_header  == ProxyAuthorizationPrefix \o <<" ">> \o proxy_authorization
                inserted     == \E i \in 1..Len(headers_list) :
                                    StartsWith(headers_list[i], ProxyAuthorizationPrefix)
                modified_headers == IF inserted THEN headers_list
                                    ELSE Append(headers_list, auth_header)
            IN  [exc     |-> "none",
                 request |-> Join(modified_headers, CRLF) \o CRLFCRLF \o parts[2]]

\* add_auth_header with a slip at lines 95-99: inserted is never set, so the
\* header is appended even after a replacement.
AddAuthHeaderAlwaysAppends(request, proxy_authorization) ==
    LET parts == SplitOnce(request, CRLFCRLF)
    IN  IF Len(parts) # 2
        THEN [exc |-> "ValueError", request |-> <<>>]
        ELSE
            LET headers_list == Split(parts[1], CRLF)
                auth_header  == ProxyAuthorizationPrefix \o <<" ">> \o proxy_authorization
                replaced     == [i \in 1..Len(headers_list) |->
                                    IF StartsWith(headers_list[i], ProxyAuthorizationPrefix)
                                    THEN auth_header
                                    ELSE headers_list[i]]
            IN  [exc     |-> "none",
                 request |-> Join(Append(replaced, auth_header), CRLF)
                                \o CRLFCRLF \o parts[2]]

\* The value add_auth_header returns, or the ValueError its unpacking raises
\* when the request holds no header/body separator.
AddAuthHeader(request, proxy_authorization) ==
    LET parts == SplitOnce(request, CRLFCRLF)
    IN  IF Len(parts) # 2
        THEN [exc |-> "ValueError", request |-> <<>>]
        ELSE
            LET headers      == parts[1]
                body         == parts[2]
                headers_list == Split(headers, CRLF)
                auth_header  == ProxyAuthorizationPrefix \o <<" ">> \o proxy_authorization
                inserted     == \E i \in 1..Len(headers_list) :
                                    StartsWith(headers_list[i], ProxyAuthorizationPrefix)
                replaced     == [i \in 1..Len(headers_list) |->
                                    IF StartsWith(headers_list[i], ProxyAuthorizationPrefix)
                                    THEN auth_header
                                    ELSE headers_list[i]]
                modified_headers == IF inserted THEN replaced
                                    ELSE Append(replaced, auth_header)
            IN  [exc     |-> "none",
                 request |-> Join(modified_headers, CRLF) \o CRLFCRLF \o body]


(***************************************************************************)
(* Connection.recv_data, Connection.send_data                              *)
(***************************************************************************)
\* What recv_data makes of one readable socket: rx.chunks are the non-empty
\* results of the successive sock.recv calls, rx.end is what stopped the loop:
\* "eof" (recv returned b""), "timeout" (socket.timeout, swallowed by
\* socket_timeout) or "error" (any other socket.error, which propagates).
RecvEnds == {"eof", "timeout", "error"}

recv_data(rx) ==
    IF rx.end = "error"
    THEN [exc |-> "socket.error", data |-> <<>>]
    ELSE [exc |-> "none", data |-> Join(rx.chunks, <<>>)]

Min(a, b) == IF a <= b THEN a ELSE b

\* The send loop. plan[k] is what the k-th sock.send does: the number of bytes
\* the destination accepts (capped by what is left), or SendError for a raised
\* socket.error; past the end of the plan the destination accepts everything.
\* wire is what the destination has received so far.
SendError == -1

RECURSIVE send_loop(_, _, _, _)
send_loop(data, total_send, plan, wire) ==
    IF ~(total_send < Len(data))
    THEN [exc |-> "none", total_send |-> total_send, wire |-> wire]
    ELSE
        LET rest == SubSeq(data, total_send + 1, Len(data))
            r    == IF plan = <<>> THEN Len(rest) ELSE Head(plan)
            send == Min(r, Len(rest))
        IN  IF r = SendError
            THEN [exc |-> "socket.error", total_send |-> total_send, wire |-> wire]
            ELSE IF send = 0
            THEN [exc |-> "none", total_send |-> total_send, wire |-> wire]
            ELSE send_loop(data, total_send + send,
                           IF plan = <<>> THEN <<>> ELSE Tail(plan),
                           wire \o SubSeq(rest, 1, send))

send_data(data, plan) == send_loop(data, 0, plan, <<>>)

(***************************************************************************)
(* Connection.tunnel_data                                                  *)
(***************************************************************************)
Methods ==
    { <<"C", "O", "N", "N", "E", "C", "T">>, <<"G", "E", "T">>, <<"P", "O", "S", "T">> }

\* Line 125 without the test of the first bytes: any data is rewritten.
IsMethodRequestAny(request, proxy_authorization) == proxy_authorization # None

\* Line 125: the rewrite step applies.
IsMethodRequest(request, proxy_authorization) ==
    /\ proxy_authorization # None
    /\ \E method \in Methods : StartsWith(request, method)

\* The policy gate of the superseded variant: forward unconditionally.
GateNeverRefuses(is_auth) == FALSE

\* Line 136: the policy gate. Its outcome for the flag the rewrite step left.
GateRefuses(is_auth) == ~is_auth

\* Line 148: what tunnel_data makes of send_data's count.
SendFailed(bytes_send, request) == bytes_send = 0

\* One call of tunnel_data on a session whose flag is is_auth.
\*   exc     "none", or the exception that leaves tunnel_data uncaught
\*   ret     the returned boolean (TRUE: the session ended)
\*   is_auth the flag afterwards
\*   wire    the bytes the destination received
\*   closed  close_connection() was called
tunnel_data(is_auth, rx, proxy_authorization, plan) ==
    LET got == recv_data(rx)
    IN  IF got.exc # "none"
        THEN [exc |-> "none", ret |-> TRUE, is_auth |-> is_auth,
              wire |-> <<>>, closed |-> TRUE]
        ELSE IF got.data = <<>>
        THEN [exc |-> "none", ret |-> TRUE, is_auth |-> is_auth,
              wire |-> <<>>, closed |-> TRUE]
        ELSE
            LET rewrite  == IsMethodRequest(got.data, proxy_authorization)
                injected == IF rewrite
                            THEN AddAuthHeader(got.data, proxy_authorization)
                            ELSE [exc |-> "none", request |-> got.data]
                request  == injected.request
                auth     == IF rewrite THEN TRUE ELSE is_auth
            IN  IF injected.exc # "none"
                THEN [exc |-> injected.exc, ret |-> FALSE, is_auth |-> is_auth,
                      wire |-> <<>>, closed |-> FALSE]
                ELSE IF GateRefuses(auth)
                THEN [exc |-> "none", ret |-> TRUE, is_auth |-> auth,
                      wire |-> <<>>, closed |-> TRUE]
                ELSE
                    LET sent == send_data(request, plan)
                    IN  IF sent.exc # "none"
                        THEN [exc |-> "none", ret |-> TRUE, is_auth |-> auth,
                              wire |-> sent.wire, closed |-> TRUE]
                        ELSE IF SendFailed(sent.total_send, request)
                        THEN [exc |-> "none", ret |-> TRUE, is_auth |-> auth,
                              wire |-> sent.wire, closed |-> TRUE]
                        ELSE [exc |-> "none", ret |-> FALSE, is_auth |-> auth,
                              wire |-> sent.wire, closed |-> FALSE]

(***************************************************************************)
(* The state of a ProxyTunnel, its sessions and their worker threads.      *)
(***************************************************************************)
VARIABLES
    proxy_authorization, \* ProxyTunnel.proxy_authorization (None or bytes)
    is_close,            \* ProxyTunnel.is_close, the stop flag
    server_socket,       \* "none", "listening" or "closed"
    connections,         \* ProxyTunnel.connections: a list of session ids
    conn,                \* the Connection objects created so far, by session id
    cpc,                 \* where the thread running start() is
    thread_ids,          \* start()'s local list thread_ids
    ci,                  \* close(): index of the connection being torn down
    arrived,             \* clients that have connected to the listening socket
    accepts,             \* accept() calls that have returned
    dials,               \* connect() calls made to the upstream endpoint
    last,                \* the latest tunnel_data call: its inputs and outcome
    hdr                  \* an add_auth_header computation (HdrSpec)

vars == <<proxy_authorization, is_close, server_socket, connections, conn, cpc,
          thread_ids, ci, arrived, accepts, dials, last, hdr>>

coordVars == <<is_close, server_socket, connections, cpc, thread_ids, ci,
               arrived, accepts, dials>>

\* Thread.is_alive() of a session's worker.
IsAlive(c) == conn[c].pc \notin {"returned", "raised"}

\* The thread_id values of the sessions in the table (line 188).
ThreadIdsOf(table) == {conn[table[i]].thread_id : i \in 1..Len(table)}

\* The Proxy endpoints a tunnel is constructed with: with credentials or not.
RemoteProxies ==
    { [username |-> <<"u">>, password |-> <<"p">>],
      [username |-> <<"u", "a">>, password |-> <<"p", "p">>],
      [username |-> <<"u">>, password |-> <<>>],
      [username |-> <<>>, password |-> <<>>] }

NoPump ==
    [conn |-> 0, src |-> "none", header |-> None, ready |-> <<>>,
     was_auth |-> FALSE, data |-> <<>>, end |-> "none", plan |-> <<>>,
     out |-> [exc |-> "none", ret |-> FALSE, is_auth |-> FALSE,
              wire |-> <<>>, closed |-> FALSE]]

NoHdr == [stage |-> "off"]

\* The endpoints of the whole-tunnel specification: one with, one without.
SysRemoteProxies ==
    { [username |-> <<"u">>, password |-> <<"p">>],
      [username |-> <<"u">>, password |-> <<>>] }

\* ProxyTunnel.__init__ followed by the bind/listen of start().
Init ==
    /\ \E remote_proxy \in SysRemoteProxies :
           proxy_authorization = ProxyAuthorization(remote_proxy)
    /\ is_close = FALSE
    /\ server_socket = "listening"
    /\ connections = <<>>
    /\ conn = <<>>
    /\ cpc = "loop"
    /\ thread_ids = {}
    /\ ci = 0
    /\ arrived = 0
    /\ accepts = 0
    /\ dials = 0
    /\ last = NoPump
    /\ hdr = NoHdr

(***************************************************************************)
(* The environment: local clients, and the thread that calls stop().       *)
(***************************************************************************)
ClientConnect ==
    /\ server_socket = "listening"
    /\ arrived < MaxClients
    /\ arrived' = arrived + 1
    /\ UNCHANGED <<proxy_authorization, is_close, server_socket, connections, conn,
                   cpc, thread_ids, ci, accepts, dials, last, hdr>>

\* ProxyTunnel.stop
Stop ==
    /\ ~is_close
    /\ is_close' = TRUE
    /\ UNCHANGED <<proxy_authorization, server_socket, connections, conn, cpc,
                   thread_ids, ci, arrived, accepts, dials, last, hdr>>

(***************************************************************************)
(* ProxyTunnel.start: the accept loop.                                     *)
(***************************************************************************)
\* Lines 179-182: the top of an iteration reads the stop flag.
LoopTop ==
    /\ cpc = "loop"
    /\ IF is_close
       THEN cpc' = "close" /\ ci' = 1
       ELSE cpc' = "reap" /\ ci' = ci
    /\ UNCHANGED <<proxy_authorization, is_close, server_socket, connections, conn,
                   thread_ids, arrived, accepts, dials, last, hdr>>

\* The reap loop with a slip at line 186: nothing is removed.
ReapedNothing(table) == table

\* Lines 184-186: the entries the reap loop keeps.
Reaped(table) == SelectSeq(table, IsAlive)

\* A Connection nothing refers to any more: removed from the table, its thread
\* ended. The object is garbage; only the slot id it held is remembered.
Gone(thread_id) ==
    [thread_id |-> thread_id, local_socket |-> "closed", remote_socket |-> "closed",
     is_auth |-> FALSE, pc |-> "returned", ready |-> <<>>]

InTable(c) == \E i \in 1..Len(connections) : connections[i] = c

\* Line 189 with > for ==.
TableFullOver(table) == Len(table) > MaxSessions

\* Line 189: the table is full.
TableFull(table) == Len(table) = MaxSessions

\* Lines 184-190 with a slip: the live entries are computed and used for the
\* snapshot and the capacity test, but never stored back in the table.
ReapKeepsTable ==
    /\ cpc = "reap"
    /\ thread_ids' = ThreadIdsOf(Reaped(connections))
    /\ cpc' = IF TableFull(Reaped(connections)) THEN "loop" ELSE "accept"
    /\ UNCHANGED <<proxy_authorization, is_close, server_socket, connections, conn,
                   ci, arrived, accepts, dials, last, hdr>>

\* Lines 184-190: reap, snapshot the slot ids in use, skip the accept when full.
Reap ==
    /\ cpc = "reap"
    /\ connections' = Reaped(connections)
    /\ conn' = [c \in 1..Len(conn) |->
                  IF InTable(c) /\ ~IsAlive(c) THEN Gone(conn[c].thread_id) ELSE conn[c]]
    /\ thread_ids' = ThreadIdsOf(connections')
    /\ cpc' = IF TableFull(connections') THEN "loop" ELSE "accept"
    /\ UNCHANGED <<proxy_authorization, is_close, server_socket, ci,
                   arrived, accepts, dials, last, hdr>>

\* Line 192: accept() blocks until a client is in the backlog.
Accept ==
    /\ cpc = "accept"
    /\ accepts < arrived
    /\ accepts' = accepts + 1
    /\ cpc' = "connect"
    /\ UNCHANGED <<proxy_authorization, is_close, server_socket, connections, conn,
                   thread_ids, ci, arrived, dials, last, hdr>>

\* Lines 194-196: the upstream dial succeeds.
ConnectOk ==
    /\ cpc = "connect"
    /\ dials' = dials + 1
    /\ cpc' = "assign"
    /\ UNCHANGED <<proxy_authorization, is_close, server_socket, connections, conn,
                   thread_ids, ci, arrived, accepts, last, hdr>>

\* Line 196: connect() raises; nothing in start() catches it.
ConnectFail ==
    /\ cpc = "connect"
    /\ dials' = dials + 1
    /\ cpc' = "raised"
    /\ UNCHANGED <<proxy_authorization, is_close, server_socket, connections, conn,
                   thread_ids, ci, arrived, accepts, last, hdr>>

\* Lines 198-200 without the skip of line 199-200: every id counts as free.
FreeIdsAll(ids) == 0..(MaxSessions - 1)

\* Lines 198-200: the ids the for loop does not skip.
FreeIds(ids) == {thread_id \in 0..(MaxSessions - 1) : thread_id \notin ids}

\* Lines 198-214 with the range walked downwards: the last id not skipped.
PickIdHighest(ids) == CHOOSE thread_id \in FreeIds(ids) : \A other \in FreeIds(ids) : thread_id >= other

\* Lines 198-214: the first id the loop does not skip.
PickId(ids) == CHOOSE thread_id \in FreeIds(ids) : \A other \in FreeIds(ids) : thread_id <= other

\* Connection.__init__ and Thread.start(): the worker is about to enter select.
NewConnection(thread_id) ==
    [thread_id |-> thread_id, local_socket |-> "open", remote_socket |-> "open",
     is_auth |-> FALSE, pc |-> "select", ready |-> <<>>]

\* Lines 198-214: create the session under the first free id and start its worker.
Assign ==
    /\ cpc = "assign"
    /\ IF FreeIds(thread_ids) = {}
       THEN UNCHANGED <<connections, conn>>
       ELSE /\ conn' = Append(conn, NewConnection(PickId(thread_ids)))
            /\ connections' = Append(connections, Len(conn) + 1)
    /\ cpc' = "loop"
    /\ UNCHANGED <<proxy_authorization, is_close, server_socket, thread_ids, ci,
                   arrived, accepts, dials, last, hdr>>

(***************************************************************************)
(* ProxyTunnel.close                                                       *)
(***************************************************************************)
\* Lines 220-226, one connection: both sockets are closed; a worker that is
\* still alive is sent kill(), which threading.Thread does not have, so the
\* AttributeError leaves close() and start().
CloseConnection ==
    /\ cpc = "close"
    /\ ci <= Len(connections)
    /\ LET c == connections[ci]
       IN  /\ conn' = [conn EXCEPT ![c].local_socket = "closed",
                                   ![c].remote_socket = "closed"]
           /\ IF IsAlive(c)
              THEN cpc' = "raised" /\ ci' = ci
              ELSE cpc' = cpc /\ ci' = ci + 1
    /\ UNCHANGED <<proxy_authorization, is_close, server_socket, connections,
                   thread_ids, arrived, accepts, dials, last, hdr>>

\* Line 228, then the return of start() at line 182.
CloseServer ==
    /\ cpc = "close"
    /\ ci > Len(connections)
    /\ server_socket' = "closed"
    /\ cpc' = "returned"
    /\ UNCHANGED <<proxy_authorization, is_close, connections, conn, thread_ids, ci,
                   arrived, accepts, dials, last, hdr>>

(***************************************************************************)
(* ProxyTunnel.handle_client: the worker of session c.                     *)
(***************************************************************************)
\* select.select returning the ready sockets in any order.
ReadyListsAnyOrder ==
    { <<"local">>, <<"remote">>, <<"local", "remote">>, <<"remote", "local">> }

\* What select.select(sockets, [], []) can return: the ready sockets, in the
\* order of the list handed to it (line 234).
ReadyLists == { <<"local">>, <<"remote">>, <<"local", "remote">> }

SocketsOpen(c) == conn[c].local_socket = "open" /\ conn[c].remote_socket = "open"

\* Line 237: the readiness wait returns.
Select(c) ==
    /\ c \in 1..Len(conn)
    /\ conn[c].pc = "select"
    /\ SocketsOpen(c)
    /\ \E ready \in ReadyLists :
           conn' = [conn EXCEPT ![c].pc = "pump", ![c].ready = ready]
    /\ UNCHANGED <<proxy_authorization, coordVars, last, hdr>>

\* Line 237 entered after close() closed the sockets: select raises ValueError
\* for the closed descriptor and the thread dies of it.
SelectClosed(c) ==
    /\ c \in 1..Len(conn)
    /\ conn[c].pc = "select"
    /\ ~SocketsOpen(c)
    /\ conn' = [conn EXCEPT ![c].pc = "raised"]
    /\ UNCHANGED <<proxy_authorization, coordVars, last, hdr>>

\* Line 237 left after close() closed the sockets of a worker that was already
\* blocked in it: the wait that was under way on the descriptors returns them.
SelectWakes(c) ==
    /\ c \in 1..Len(conn)
    /\ conn[c].pc = "select"
    /\ ~SocketsOpen(c)
    /\ \E ready \in ReadyLists :
           conn' = [conn EXCEPT ![c].pc = "pump", ![c].ready = ready]
    /\ UNCHANGED <<proxy_authorization, coordVars, last, hdr>>

\* Lines 240-247: the auth header the pump of each direction is given.
HeaderFor(src) == IF src = "local" THEN proxy_authorization ELSE None

\* Lines 238-247 with the returns taken only once the for loop is through.
AfterPumpGoesOn(out, ready) ==
    IF out.exc # "none" THEN "raised"
    ELSE IF Tail(ready) # <<>> THEN "pump"
    ELSE IF out.ret THEN "returned"
    ELSE "select"

\* Lines 238-247: where the worker goes after a pump. ENDED ends the thread
\* (the return of handle_client), an uncaught exception too.
AfterPump(out, ready) ==
    IF out.exc # "none" THEN "raised"
    ELSE IF out.ret THEN "returned"
    ELSE IF Tail(ready) = <<>> THEN "select"
    ELSE "pump"

\* Lines 238-247: one pass of the for loop, a whole tunnel_data call. rx and
\* plan are what the two peers do during the call; a socket that close() has
\* closed makes the receive raise.
Pump(c, rx, plan) ==
    /\ c \in 1..Len(conn)
    /\ conn[c].pc = "pump"
    /\ conn[c].ready # <<>>
    /\ LET src == Head(conn[c].ready)
           rxc == IF SocketsOpen(c) THEN rx ELSE [chunks |-> <<>>, end |-> "error"]
       IN  \E out \in {tunnel_data(conn[c].is_auth, rxc, HeaderFor(src), plan)} :
           /\ conn' = [conn EXCEPT
                  ![c].is_auth = out.is_auth,
                  ![c].local_socket = IF out.closed THEN "closed" ELSE @,
                  ![c].remote_socket = IF out.closed THEN "closed" ELSE @,
                  ![c].pc = AfterPump(out, conn[c].ready),
                  ![c].ready = IF AfterPump(out, conn[c].ready) = "pump"
                               THEN Tail(@) ELSE <<>>]
           /\ last' = [conn |-> c, src |-> src, header |-> HeaderFor(src),
                       ready |-> conn[c].ready, was_auth |-> conn[c].is_auth,
                       data |-> recv_data(rxc).data, end |-> rxc.end,
                       plan |-> plan, out |-> out]
    /\ UNCHANGED <<proxy_authorization, coordVars, hdr>>

(***************************************************************************)
(* What the peers send: the payloads a pump can receive.                   *)
(***************************************************************************)
\* GET / HTTP/1.1\r\nHost: x\r\n\r\n
GetRequest ==
    <<"G", "E", "T", " ", "/", " ", "H", "T", "T", "P", "/", "1", ".", "1",
      CR, LF, "H", "o", "s", "t", ":", " ", "x", CR, LF, CR, LF>>

\* CONNECT x\r\n\r\n
ConnectRequest ==
    <<"C", "O", "N", "N", "E", "C", "T", " ", "x", CR, LF, CR, LF>>

\* POST /\r\nProxy-Authorization: old\r\n\r\nb=1
PostRequest ==
    <<"P", "O", "S", "T", " ", "/", CR, LF, "P", "r", "o", "x", "y", "-",
      "A", "u", "t", "h", "o", "r", "i", "z", "a", "t", "i", "o", "n", ":",
      " ", "o", "l", "d", CR, LF, CR, LF, "b", "=", "1">>

\* GET /\r\n : a request whose header block has not ended yet
GetNoSeparator ==
    <<"G", "E", "T", " ", "/", CR, LF>>

\* get /\r\n\r\n : not one of the three methods, byte for byte
LowerGet ==
    <<"g", "e", "t", " ", "/", CR, LF, CR, LF>>

\* opaque tunnelled bytes that happen to hold the separator
Opaque ==
    <<"#", CR, LF, CR, LF, "%">>

\* HTTP/1.1 200 OK\r\n\r\n
Response200 ==
    <<"H", "T", "T", "P", "/", "1", ".", "1", " ", "2", "0", "0", " ", "O",
      "K", CR, LF, CR, LF>>

Literal407 ==
    <<"4", "0", "7", " ", "P", "r", "o", "x", "y", " ", "A", "u", "t", "h",
      "e", "n", "t", "i", "c", "a", "t", "i", "o", "n", " ", "R", "e", "q",
      "u", "i", "r", "e", "d">>

\* HTTP/1.1 407 Proxy Authentication Required\r\n\r\n
Response407 ==
    <<"H", "T", "T", "P", "/", "1", ".", "1", " ">> \o Literal407 \o CRLFCRLF

Payloads ==
    { GetRequest, ConnectRequest, PostRequest, GetNoSeparator, LowerGet, Opaque,
      Response200, Response407, <<"G">> }

\* The ways one payload reaches recv_data: in one chunk or in two, before the
\* idle timeout or before the peer closes; nothing at all; or up to an error.
ReceiptsOf(m) ==
    { [chunks |-> <<m>>, end |-> e] : e \in {"timeout", "eof"} }
    \cup { [chunks |-> <<SubSeq(m, 1, k), SubSeq(m, k + 1, Len(m))>>, end |-> "timeout"] :
               k \in {1, Len(m) \div 2} \cap (1..(Len(m) - 1)) }
    \cup { [chunks |-> <<m>>, end |-> "error"] }

NoReceipts == { [chunks |-> <<>>, end |-> e] : e \in {"eof", "timeout", "error"} }

PumpReceipts == NoReceipts \cup UNION { ReceiptsOf(m) : m \in Payloads }

\* What the destination does with the successive sends.
PumpPlans ==
    { <<>>, <<0>>, <<SendError>>, <<1>>, <<1, 0>>, <<1, SendError>>, <<2, 1>> }

\* The inputs of the whole-tunnel specification: one payload of each kind.
SysReceipts ==
    { [chunks |-> <<GetRequest>>, end |-> "timeout"],
      [chunks |-> <<Opaque>>, end |-> "timeout"],
      [chunks |-> <<GetNoSeparator>>, end |-> "timeout"],
      [chunks |-> <<>>, end |-> "eof"],
      [chunks |-> <<>>, end |-> "error"] }

SysPlans == { <<>>, <<0>> }

(***************************************************************************)
(* Spec: the whole tunnel, from construction.                              *)
(***************************************************************************)
Next ==
    \/ ClientConnect
    \/ Stop
    \/ LoopTop
    \/ Reap
    \/ Accept
    \/ ConnectOk
    \/ ConnectFail
    \/ Assign
    \/ CloseConnection
    \/ CloseServer
    \/ \E c \in 1..MaxClients : Select(c)
    \/ \E c \in 1..MaxClients : SelectClosed(c)
    \/ \E c \in 1..MaxClients : SelectWakes(c)
    \/ \E c \in 1..MaxClients, rx \in SysReceipts, plan \in SysPlans : Pump(c, rx, plan)

Spec == Init /\ [][Next]_vars

(***************************************************************************)
(* PumpSpec: one session, every payload, receipt and send behaviour.       *)
(* It starts where Spec is once the first client was accepted and dialed   *)
(* and the coordinator is blocked in accept() again.                       *)
(***************************************************************************)
InitPump ==
    /\ \E remote_proxy \in RemoteProxies :
           proxy_authorization = ProxyAuthorization(remote_proxy)
    /\ is_close = FALSE
    /\ server_socket = "listening"
    /\ connections = <<1>>
    /\ conn = <<NewConnection(0)>>
    /\ cpc = "accept"
    /\ thread_ids = {0}
    /\ ci = 0
    /\ arrived = 1
    /\ accepts = 1
    /\ dials = 1
    /\ last = NoPump
    /\ hdr = NoHdr

NextPump ==
    \/ Select(1)
    \/ \E rx \in PumpReceipts, plan \in PumpPlans : Pump(1, rx, plan)

PumpSpec == InitPump /\ [][NextPump]_vars

(***************************************************************************)
(* HdrSpec: add_auth_header applied once and twice to bounded requests.    *)
(***************************************************************************)
\* Request lines. The last one ends in a lone CR.
RequestLines ==
    { <<"G", "E", "T", " ", "/", " ", "H", "T", "T", "P", "/", "1", ".", "1">>,
      <<"C", "O", "N", "N", "E", "C", "T", " ", "x">>,
      <<"P", "O", "S", "T", " ", "/", CR>> }

\* Header lines: non-empty, without CRLF. The fourth and the fifth are not
\* Proxy-Authorization lines byte for byte (a leading space, lower case).
HeaderLines ==
    { <<"H", "o", "s", "t", ":", " ", "x">>,
      ProxyAuthorizationPrefix \o <<" ", "o", "l", "d">>,
      ProxyAuthorizationPrefix,
      <<" ">> \o ProxyAuthorizationPrefix \o <<" ", "o">>,
      <<"p", "r", "o", "x", "y", "-", "a", "u", "t", "h", "o", "r", "i", "z",
        "a", "t", "i", "o", "n", ":", " ", "o">>,
      <<"A", ":", LF, "b">>,
      <<CR>> }

Bodies ==
    { <<>>,
      <<"b", "=", "1">>,
      CRLF,
      <<LF>>,
      CRLFCRLF \o <<"G", "E", "T">>,
      ProxyAuthorizationPrefix \o <<" ", "z">> \o CRLFCRLF }

\* The sequences of at most n header lines.
RECURSIVE HeaderBlocks(_)
HeaderBlocks(n) ==
    IF n = 0 THEN { <<>> }
    ELSE HeaderBlocks(n - 1)
         \cup { Append(hs, h) : hs \in {b \in HeaderBlocks(n - 1) : Len(b) = n - 1},
                                h \in HeaderLines }

\* A message made of a request line, header lines, the separator and a body.
Compose(line, headers, body) ==
    Join(<<line>> \o headers, CRLF) \o CRLFCRLF \o body

\* Byte strings that are not of that shape: without a separator, or with
\* nothing, an empty line or a Proxy-Authorization line before it.
RawRequests ==
    { <<>>,
      <<"G", "E", "T", " ", "/">>,
      GetNoSeparator,
      GetNoSeparator \o <<CR>>,
      CRLFCRLF,
      GetNoSeparator \o CRLFCRLF \o CRLFCRLF,
      ProxyAuthorizationPrefix \o CRLFCRLF \o <<"b">>,
      Opaque }

HasSeparator(request) == Find(request, CRLFCRLF) # 0

InitHdr ==
    /\ \E remote_proxy \in {r \in RemoteProxies : ProxyAuthorization(r) # None} :
           proxy_authorization = ProxyAuthorization(remote_proxy)
    /\ is_close = FALSE
    /\ server_socket = "listening"
    /\ connections = <<>>
    /\ conn = <<>>
    /\ cpc = "loop"
    /\ thread_ids = {}
    /\ ci = 0
    /\ arrived = 0
    /\ accepts = 0
    /\ dials = 0
    /\ last = NoPump
    /\ \/ \E line \in RequestLines, headers \in HeaderBlocks(MaxHeaders), body \in Bodies :
              hdr = [stage |-> "in", kind |-> "built", line |-> line,
                     headers |-> headers, body |-> body,
                     request |-> Compose(line, headers, body)]
       \/ \E raw \in RawRequests :
              hdr = [stage |-> "in", kind |-> "raw", line |-> <<>>,
                     headers |-> <<>>, body |-> <<>>, request |-> raw]

\* add_auth_header(request, proxy_authorization)
Inject ==
    /\ hdr.stage = "in"
    /\ hdr' = [stage |-> "once", kind |-> hdr.kind, line |-> hdr.line,
               headers |-> hdr.headers, body |-> hdr.body, request |-> hdr.request,
               once |-> AddAuthHeader(hdr.request, proxy_authorization)]
    /\ UNCHANGED <<proxy_authorization, coordVars, conn, last>>

\* add_auth_header applied to its own result, with the same credentials.
InjectAgain ==
    /\ hdr.stage = "once"
    /\ hdr.once.exc = "none"
    /\ hdr' = [stage |-> "twice", kind |-> hdr.kind, line |-> hdr.line,
               headers |-> hdr.headers, body |-> hdr.body, request |-> hdr.request,
               once |-> hdr.once,
               twice |-> AddAuthHeader(hdr.once.request, proxy_authorization)]
    /\ UNCHANGED <<proxy_authorization, coordVars, conn, last>>

NextHdr == Inject \/ InjectAgain

HdrSpec == InitHdr /\ [][NextHdr]_vars

(***************************************************************************)
(* Properties of the accept loop (Spec).                                   *)
(***************************************************************************)
\* C1: in every reachable state the session table holds at most MaxSessions
\* entries.
C1_TableBounded == Len(connections) <= MaxSessions

\* The table is full again after an earlier session was reaped.
C1_Witness ==
    /\ Len(connections) = MaxSessions
    /\ \E c \in 1..Len(conn) : ~InTable(c)

\* C2: a step taken while the table holds MaxSessions entries performs no
\* accept and no upstream dial, and the table leaves that state only by the
\* reap step removing the entry of a worker that has ended.
C2_NoAcceptWhenFull ==
    [][ Len(connections) = MaxSessions =>
            /\ accepts' = accepts
            /\ dials' = dials
            /\ Len(connections') # MaxSessions =>
                   /\ cpc = "reap"
                   /\ \E i \in 1..Len(connections) :
                          /\ ~IsAlive(connections[i])
                          /\ \A j \in 1..Len(connections') :
                                 connections'[j] # connections[i] ]_vars

\* A client waits in the backlog while the table is full.
C2_Witness ==
    /\ Len(connections) = MaxSessions
    /\ accepts < arrived
    /\ cpc \in {"loop", "reap"}

\* C3: when two sessions were given the same slot id, the earlier one's worker
\* has finished and its entry is out of the table; so no two entries of the
\* table hold the same slot id.
C3_SlotExclusive ==
    /\ \A a, b \in 1..Len(conn) :
           (a < b /\ conn[a].thread_id = conn[b].thread_id) =>
               (~IsAlive(a) /\ ~InTable(a))
    /\ \A i, j \in 1..Len(connections) :
           i # j => conn[connections[i]].thread_id # conn[connections[j]].thread_id

\* A slot id is in use for the second time.
C3_Witness ==
    \E a, b \in 1..Len(conn) :
        a < b /\ conn[a].thread_id = conn[b].thread_id /\ InTable(b)

\* What a pump that read zero bytes at end-of-stream leaves behind: nothing
\* forwarded, ENDED returned, both sockets closed, the worker ended.
ZeroByteRead == last.conn # 0 /\ last.data = <<>> /\ last.end = "eof"

ZeroByteEnds ==
    ZeroByteRead =>
        /\ last.out.exc = "none"
        /\ last.out.ret
        /\ last.out.wire = <<>>
        /\ conn[last.conn].local_socket = "closed"
        /\ conn[last.conn].remote_socket = "closed"
        /\ conn[last.conn].pc = "returned"

\* The reap step removes every entry whose worker has ended, and the slot id
\* of each is free in the snapshot the assignment uses.
ReapRemovesEnded ==
    (cpc = "reap" /\ cpc' # "reap") =>
        \A i \in 1..Len(connections) :
            ~IsAlive(connections[i]) =>
                /\ \A j \in 1..Len(connections') : connections'[j] # connections[i]
                /\ conn[connections[i]].thread_id \in FreeIds(thread_ids')

\* The coordinator begins a loop iteration while the table still holds the
\* session that read zero bytes.
BeginsIterationAfterZeroByte ==
    /\ cpc = "loop"
    /\ cpc' # "loop"
    /\ ZeroByteRead
    /\ InTable(last.conn)

ReceivedData == last.conn # 0 /\ last.end # "error" /\ last.data # <<>>

StartsWithMethod(data) == \E method \in Methods : StartsWith(data, method)

\* C4: a client->upstream pump that is given an auth header, received data
\* that does not start with CONNECT, GET or POST, on a session no request was
\* injected on before, sends nothing upstream, closes both sockets and
\* returns ENDED.
C4_GateRefuses ==
    ( /\ ReceivedData
      /\ last.src = "local"
      /\ proxy_authorization # None
      /\ ~last.was_auth
      /\ ~StartsWithMethod(last.data) ) =>
        /\ last.out.exc = "none"
        /\ last.out.ret
        /\ ~last.out.is_auth
        /\ last.out.wire = <<>>
        /\ conn[last.conn].local_socket = "closed"
        /\ conn[last.conn].remote_socket = "closed"
        /\ conn[last.conn].pc = "returned"

\* The gate refused opaque bytes the client sent first.
C4_Witness ==
    /\ ReceivedData
    /\ last.src = "local"
    /\ proxy_authorization # None
    /\ ~last.was_auth
    /\ last.data = Opaque
    /\ last.out.ret

\* C5: whenever the data a pump buffered holds the literal
\* "407 Proxy Authentication Required", in either direction, the pump returns
\* ENDED with both sockets closed, and the worker, ended, forwards no more.
C5_Ends407 ==
    (ReceivedData /\ Find(last.data, Literal407) # 0) =>
        /\ last.out.ret
        /\ conn[last.conn].local_socket = "closed"
        /\ conn[last.conn].remote_socket = "closed"
        /\ conn[last.conn].pc = "returned"

\* C9: once the session is authenticated, a payload a pump reads, in either
\* direction and whatever its bytes, reaches a destination that accepts
\* everything byte-for-byte as it was received. (The pumps that die of an
\* exception are left out: they deliver nothing.)
C9_ByteIdentical ==
    (ReceivedData /\ last.was_auth /\ last.plan = <<>> /\ last.out.exc = "none") =>
        last.out.wire = last.data

\* The message a pump has to forward: the data, or the rewritten request.
Forwarded ==
    IF IsMethodRequest(last.data, HeaderFor(last.src))
    THEN AddAuthHeader(last.data, HeaderFor(last.src)).request
    ELSE last.data

\* C10: a pump returns "not ended" only if the whole buffered message was
\* delivered to the destination, in receipt order.
C10_DrainedOrEnded ==
    (ReceivedData /\ last.out.exc = "none" /\ ~last.out.ret) =>
        last.out.wire = Forwarded

(***************************************************************************)
(* Properties of add_auth_header (HdrSpec).                                *)
(***************************************************************************)
IsProxyAuthorization(header) == StartsWith(header, ProxyAuthorizationPrefix)

\* The header line the injection writes.
InjectedHeader == ProxyAuthorizationPrefix \o <<" ">> \o proxy_authorization

HasProxyAuthorization(headers) ==
    \E i \in 1..Len(headers) : IsProxyAuthorization(headers[i])

\* The header lines the injection is to produce from headers.
ExpectedHeaders(headers) ==
    IF HasProxyAuthorization(headers)
    THEN [i \in 1..Len(headers) |->
              IF IsProxyAuthorization(headers[i]) THEN InjectedHeader ELSE headers[i]]
    ELSE Append(headers, InjectedHeader)

\* Scenario A: what is forwarded for GetRequest with user "u", password "p".
ScenarioAForwarded ==
    <<"G", "E", "T", " ", "/", " ", "H", "T", "T", "P", "/", "1", ".", "1",
      CR, LF, "H", "o", "s", "t", ":", " ", "x", CR, LF,
      "P", "r", "o", "x", "y", "-", "A", "u", "t", "h", "o", "r", "i", "z",
      "a", "t", "i", "o", "n", ":", " ", "B", "a", "s", "i", "c", " ",
      "d", "T", "p", "w", CR, LF, CR, LF>>

ScenarioA ==
    /\ hdr.request = GetRequest
    /\ proxy_authorization = ProxyAuthorization([username |-> <<"u">>, password |-> <<"p">>])

\* C7: for a request made of a request line, N header lines, the separator
\* and a body, add_auth_header returns the same request line, the same body,
\* and the same headers with, when none of them is Proxy-Authorization, one
\* Proxy-Authorization header added as the last of N+1, immediately before
\* the separator; otherwise the Proxy-Authorization headers replaced in
\* place and N headers.
C7_Injection ==
    (hdr.stage \in {"once", "twice"} /\ hdr.kind = "built") =>
        LET N     == Len(hdr.headers)
            parts == SplitOnce(hdr.once.request, CRLFCRLF)
            lines == Split(parts[1], CRLF)
        IN  /\ hdr.once.exc = "none"
            /\ hdr.once.request = Compose(hdr.line, ExpectedHeaders(hdr.headers), hdr.body)
            /\ ScenarioA => hdr.once.request = ScenarioAForwarded
            /\ Len(parts) = 2
            /\ parts[2] = hdr.body
            /\ lines[1] = hdr.line
            /\ IF HasProxyAuthorization(hdr.headers)
               THEN Len(lines) = 1 + N
               ELSE /\ Len(lines) = 1 + N + 1
                    /\ lines[Len(lines)] = InjectedHeader
                    /\ \A i \in 1..N : lines[1 + i] = hdr.headers[i]
                    /\ Cardinality({i \in 1..Len(lines) : IsProxyAuthorization(lines[i])}) = 1

\* A header was appended after two others, before a body.
C7_Witness ==
    /\ hdr.stage = "once"
    /\ hdr.kind = "built"
    /\ Len(hdr.headers) = 2
    /\ ~HasProxyAuthorization(hdr.headers)
    /\ hdr.body # <<>>
    /\ hdr.once.request # hdr.request

\* C8: for every request that holds the separator, injecting twice with the
\* same credentials gives what injecting once gives.
C8_Idempotent ==
    /\ (hdr.stage = "once" /\ HasSeparator(hdr.request)) => hdr.once.exc = "none"
    /\ hdr.stage = "twice" =>
           /\ hdr.twice.exc = "none"
           /\ hdr.twice.request = hdr.once.request

\* The second injection ran on a request whose header was replaced by the first.
C8_Witness ==
    /\ hdr.stage = "twice"
    /\ HasProxyAuthorization(hdr.headers)
    /\ hdr.once.request # hdr.request

(***************************************************************************)
(* Properties of shutdown and of the dial (Spec).                          *)
(***************************************************************************)
\* Every session of the table has both sockets closed and no running worker,
\* and the listening socket is closed.
TornDown ==
    /\ \A i \in 1..Len(connections) :
           /\ conn[connections[i]].local_socket = "closed"
           /\ conn[connections[i]].remote_socket = "closed"
           /\ ~IsAlive(connections[i])
    /\ server_socket = "closed"

\* C11: close() completes without raising whatever the sessions of the table
\* are doing (no step of close() leaves it by an exception), and when it has
\* returned every session's two sockets are closed, no worker is running and
\* the listening socket is closed.
C11_CloseCompletes ==
    /\ [][cpc = "close" => cpc' \in {"close", "returned"}]_vars
    /\ [](cpc = "returned" => TornDown)

\* C12: stop() changes the stop flag and nothing else; close() is entered
\* only from the top of a loop iteration that finds the flag set, and such an
\* iteration does enter it; from there on nothing is accepted or dialed, the
\* sessions and the listener are torn down and start() returns.
C12_StopCooperative ==
    /\ [][is_close' # is_close =>
             /\ is_close'
             /\ UNCHANGED <<proxy_authorization, server_socket, connections, conn,
                            cpc, thread_ids, ci, arrived, accepts, dials, last, hdr>>]_vars
    /\ [][(cpc # "close" /\ cpc' = "close") => (cpc = "loop" /\ is_close)]_vars
    /\ [][(cpc = "loop" /\ is_close /\ cpc' # cpc) => cpc' = "close"]_vars
    /\ [][cpc = "close" =>
             /\ accepts' = accepts
             /\ dials' = dials
             /\ cpc' \in {"close", "returned"}]_vars
    /\ [](cpc = "returned" => TornDown)

\* C13: a dial that fails after a client was accepted leaves start() running:
\* the step after the dial is the slot assignment or the next iteration, never
\* an exception out of start(), and the dial step leaves the table and the
\* sessions as they are.
C13_DialFailureAborts ==
    [][cpc = "connect" =>
         /\ cpc' \in {"connect", "assign", "loop"}
         /\ connections' = connections
         /\ Len(conn') = Len(conn)]_vars

\* C19: close() closing a session's sockets while the session's worker uses
\* them is tolerated: close() is not left by an exception, and a running
\* worker whose sockets close() has closed is not ended by an exception.
C19_DoubleCloseTolerated ==
    /\ [][(cpc = "close" /\ ci <= Len(connections)) => cpc' # "raised"]_vars
    /\ [][\A c \in 1..Len(conn) :
             (IsAlive(c) /\ ~SocketsOpen(c)) => conn'[c].pc # "raised"]_vars

(***************************************************************************)
(* Properties of the worker loop and of the slot assignment.               *)
(***************************************************************************)
\* C14: a pump that received data from the upstream, or from the client of a
\* tunnel that has no credentials, and whose destination takes every byte,
\* forwards the data as received and does not end the session.
C14_GateOnlyWhenStated ==
    ( /\ ReceivedData
      /\ last.src = "remote" \/ proxy_authorization = None
      /\ last.plan = <<>> ) =>
        /\ last.out.exc = "none"
        /\ ~last.out.ret
        /\ last.out.wire = last.data

\* The step is a pass of session c's for loop: one tunnel_data call, the one
\* last' records.
PumpStep(c) ==
    /\ conn[c].pc = "pump"
    /\ conn'[c].pc # "pump" \/ conn'[c].ready # conn[c].ready

\* C15: the sockets a wake-up has still to serve are the client's, the
\* upstream's, or the client's followed by the upstream's. When both are
\* ready the pump that runs is the client->upstream one, with the auth header,
\* and if it does not end the session the upstream->client one is next; an
\* upstream->client pump gets no header and no pump of the same wake-up
\* follows it.
C15_ClientFirst ==
    /\ [](\A c \in 1..Len(conn) :
            conn[c].pc = "pump" =>
                conn[c].ready \in {<<"local">>, <<"remote">>, <<"local", "remote">>})
    /\ [][\A c \in 1..Len(conn) : PumpStep(c) =>
             /\ last'.conn = c
             /\ last'.src = Head(conn[c].ready)
             /\ conn[c].ready = <<"local", "remote">> =>
                    /\ last'.src = "local"
                    /\ last'.header = proxy_authorization
                    /\ conn'[c].pc = "pump" => conn'[c].ready = <<"remote">>
             /\ last'.src = "remote" =>
                    /\ last'.header = None
                    /\ conn'[c].pc # "pump"]_vars

\* The client pump of a wake-up with both sockets ready has run and forwarded;
\* the upstream pump of the same wake-up is next.
C15_Witness ==
    /\ last.conn = 1
    /\ last.ready = <<"local", "remote">>
    /\ last.src = "local"
    /\ last.header # None
    /\ ~last.out.ret
    /\ conn[1].pc = "pump"
    /\ conn[1].ready = <<"remote">>

\* C16: a pump that returns True ends the worker at once, whatever else was
\* ready in the wake-up; a worker that has ended runs no pump again; and the
\* reap loop does not keep the entry of a worker that has ended.
C16_EndedAbsorbing ==
    /\ [][\A c \in 1..Len(conn) :
             (PumpStep(c) /\ last'.out.exc = "none" /\ last'.out.ret) =>
                 /\ conn'[c].pc = "returned"
                 /\ conn'[c].ready = <<>>]_vars
    /\ [][\A c \in 1..Len(conn) :
             conn[c].pc = "returned" =>
                 /\ conn'[c].pc = "returned"
                 /\ conn'[c].ready = <<>>
                 /\ last' # last => last'.conn # c]_vars
    /\ [](\A c \in 1..Len(conn) :
            (conn[c].pc = "returned" /\ InTable(c)) =>
                \A i \in 1..Len(Reaped(connections)) : Reaped(connections)[i] # c)

\* The client pump of a wake-up with both sockets ready ended the session:
\* the worker has returned with the upstream pump not run, the entry is still
\* in the table.
C16_Witness ==
    /\ last.conn # 0
    /\ last.ready = <<"local", "remote">>
    /\ last.out.exc = "none"
    /\ last.out.ret
    /\ conn[last.conn].pc = "returned"
    /\ InTable(last.conn)

\* C17: the session a step appends to the table has the lowest id of
\* 0..MaxSessions-1 that no entry of the table held before the step.
C17_LowestFreeId ==
    [][Len(connections') = Len(connections) + 1 =>
         LET thread_id == conn'[connections'[Len(connections')]].thread_id
             held      == ThreadIdsOf(connections)
         IN  /\ thread_id \in 0..(MaxSessions - 1)
             /\ thread_id \notin held
             /\ \A lower \in 0..(thread_id - 1) : lower \in held]_vars

\* A session was given id 0 while an older session of the table holds id 1.
C17_Witness ==
    \E i, j \in 1..Len(connections) :
        /\ i < j
        /\ conn[connections[i]].thread_id = 1
        /\ conn[connections[j]].thread_id = 0
        /\ IsAlive(connections[i])

\* C18: a session is created with is_auth False; is_auth goes from False to
\* True only in a pump that is given an auth header, received data starting
\* with CONNECT, GET or POST and injected the header, and does so in every
\* such pump; once True it stays True until the session is reaped.
C18_AuthFlag ==
    [][\A c \in 1..Len(conn') :
         /\ c > Len(conn) => ~conn'[c].is_auth
         /\ (c <= Len(conn) /\ ~conn[c].is_auth /\ conn'[c].is_auth) =>
                /\ PumpStep(c)
                /\ last'.header # None
                /\ ReceivedData'
                /\ StartsWithMethod(last'.data)
                /\ last'.out.exc = "none"
         /\ ( /\ c <= Len(conn)
              /\ PumpStep(c)
              /\ last'.header # None
              /\ ReceivedData'
              /\ StartsWithMethod(last'.data)
              /\ last'.out.exc = "none" ) => conn'[c].is_auth
         /\ (c <= Len(conn) /\ conn[c].is_auth /\ ~conn'[c].is_auth) =>
                (cpc = "reap" /\ InTable(c) /\ ~IsAlive(c))]_vars

\* An authenticated session has pumped opaque bytes from the client and is
\* still authenticated and running.
C18_Witness ==
    /\ last.conn # 0
    /\ last.src = "local"
    /\ last.was_auth
    /\ last.data = Opaque
    /\ ~last.out.ret
    /\ conn[last.conn].is_auth
    /\ IsAlive(last.conn)

\* C20: a session whose worker has stopped running has both sockets closed.
C20_ExitClosesSockets ==
    \A c \in 1..Len(conn) :
        ~IsAlive(c) =>
            /\ conn[c].local_socket = "closed"
            /\ conn[c].remote_socket = "closed"

=============================================================================
